---- MODULE Spec2Model ----
(***************************************************************************)
(* goose: annotated-SQL migration runner.                                  *)
(*                                                                         *)
(* Three specifications share this module:                                 *)
(*   SpecSemi   endsWithSemicolon applied to every short line              *)
(*   SpecSplit  splitSQLStatements scanning a script line by line          *)
(*   Spec       runSQLMigration / validateChecksum / the dialect queries   *)
(*              against a database with a version-history table            *)
(*                                                                         *)
(* Text is a sequence of one-character strings.  A buffer or a statement   *)
(* is a sequence of buffered lines, each standing for line + "\n"; every   *)
(* buffered line carries the number of the script line it was read from.   *)
(***************************************************************************)
EXTENDS Integers, Sequences, FiniteSets, TLC

VARIABLES
    \* ---- SpecSemi
    line,        \* argument of endsWithSemicolon
    ret,         \* <<>> before the call, <<its return value>> after
    \* ---- SpecSplit
    script,      \* the lines the scanner will deliver
    sdir,        \* direction argument (TRUE = up)
    pos,         \* number of lines scanned so far
    sp,          \* local variables of splitSQLStatements
    sout,        \* how the call ended
    \* ---- Spec
    dialect,     \* conf.Driver.Dialect
    files,       \* content of each version's script file on disk
    history,     \* committed rows of goose_db_version, in id order
    pc,          \* position of the process
    txn,         \* state of the transaction of the current run
    effects,     \* statements whose effects the transaction holds: durable
                 \* once it is committed, gone once it is rolled back
    run,         \* local variables of runSQLMigration
    outcome,     \* how the last operation ended
    recorded     \* per version, the bytes whose checksum was last stored

semiVars  == <<line, ret>>
splitVars == <<script, sdir, pos, sp, sout>>
runVars   == <<dialect, files, history, pc, txn, effects, run,
               outcome, recorded>>
vars      == <<semiVars, splitVars, runVars>>

----------------------------------------------------------------------------
(* Bounds *)

MaxLineLen   == 6    \* characters of a line given to endsWithSemicolon
MaxScriptLen == 4    \* lines of a script given to splitSQLStatements
MaxVersion   == 1    \* migration versions
MaxHistory   == 2    \* rows of goose_db_version

----------------------------------------------------------------------------
(* strings *)

HasPrefix(s, p) == Len(s) >= Len(p) /\ SubSeq(s, 1, Len(p)) = p

HasSuffix(s, p) == Len(s) >= Len(p) /\ SubSeq(s, Len(s) - Len(p) + 1, Len(s)) = p

IsSpace(c) == c = " "

RECURSIVE TrimLeft(_)
TrimLeft(s) ==
    IF s # <<>> /\ IsSpace(Head(s)) THEN TrimLeft(Tail(s)) ELSE s

RECURSIVE TrimRight(_)
TrimRight(s) ==
    IF s # <<>> /\ IsSpace(s[Len(s)]) THEN TrimRight(SubSeq(s, 1, Len(s) - 1)) ELSE s

TrimSpace(s) == TrimRight(TrimLeft(s))

\* bufio.ScanWords: the maximal runs of non-space characters, in order
RECURSIVE ScanWordsFrom(_, _, _)
ScanWordsFrom(s, i, word) ==
    IF i > Len(s)
    THEN IF word = <<>> THEN <<>> ELSE <<word>>
    ELSE IF IsSpace(s[i])
         THEN IF word = <<>>
              THEN ScanWordsFrom(s, i + 1, <<>>)
              ELSE <<word>> \o ScanWordsFrom(s, i + 1, <<>>)
         ELSE ScanWordsFrom(s, i + 1, Append(word, s[i]))

ScanWords(s) == ScanWordsFrom(s, 1, <<>>)

----------------------------------------------------------------------------
(* endsWithSemicolon *)

DashDash  == <<"-", "-">>
Semicolon == <<";">>

\* the body of the word loop with the break removed
RECURSIVE WordLoopNoBreak(_, _, _)
WordLoopNoBreak(words, i, prev) ==
    IF i > Len(words) THEN prev
    ELSE WordLoopNoBreak(words, i + 1, words[i])

\* for scanner.Scan() { word; if HasPrefix(word, "--") break; prev = word }
RECURSIVE WordLoop(_, _, _)
WordLoop(words, i, prev) ==
    IF i > Len(words) THEN prev
    ELSE IF HasPrefix(words[i], DashDash) THEN prev
    ELSE WordLoop(words, i + 1, words[i])

endsWithSemicolon(l) == HasSuffix(WordLoop(ScanWords(l), 1, <<>>), Semicolon)

----------------------------------------------------------------------------
(* SpecSemi *)

Alphabet == {"a", ";", "-", " "}

Lines == UNION {[1..k -> Alphabet] : k \in 0..MaxLineLen}

NoScan == [buf |-> <<>>, stmts |-> <<>>, upSections |-> 0, downSections |-> 0,
           statementEnded |-> FALSE, ignoreSemicolons |-> FALSE,
           directionIsActive |-> FALSE]

NoSplit  == [status |-> "off", warnings |-> {}, stmts |-> <<>>]
Scanning == [status |-> "scanning", warnings |-> {}, stmts |-> <<>>]

NoRun == [v |-> 0, direction |-> FALSE, md5str |-> <<>>, data |-> <<>>,
          stmts |-> <<>>, idx |-> 0, warnings |-> {}]

NoOutcome == [op |-> "none", v |-> 0, out |-> "none", k |-> 0, qerr |-> "nil",
              rows |-> <<>>, warnings |-> {}]

SemiIdle  == line = <<>> /\ ret = <<>>
SplitIdle == script = <<>> /\ sdir = FALSE /\ pos = 0 /\ sp = NoScan /\ sout = NoSplit
RunIdle   == /\ dialect = "none" /\ files = <<>> /\ history = <<>>
             /\ pc = "off" /\ txn = "none"
             /\ effects = <<>> /\ run = NoRun /\ outcome = NoOutcome
             /\ recorded = <<>>

InitSemi == line \in Lines /\ ret = <<>> /\ SplitIdle /\ RunIdle

CallEndsWithSemicolon ==
    /\ ret = <<>>
    /\ ret' = <<endsWithSemicolon(line)>>
    /\ UNCHANGED <<line, splitVars, runVars>>

NextSemi == CallEndsWithSemicolon

SpecSemi == InitSemi /\ [][NextSemi]_vars

\* l[i..j] is a maximal run of non-space characters
IsWord(l, i, j) ==
    /\ 1 <= i /\ i <= j /\ j <= Len(l)
    /\ \A n \in i..j : ~IsSpace(l[n])
    /\ (i = 1 \/ IsSpace(l[i - 1]))
    /\ (j = Len(l) \/ IsSpace(l[j + 1]))

\* a word that begins with "--" starts at position i
CommentAt(l, i) ==
    /\ i + 1 <= Len(l)
    /\ (i = 1 \/ IsSpace(l[i - 1]))
    /\ l[i] = "-" /\ l[i + 1] = "-"

\* l[i..j] is the last word before the first word that begins with "--"
\* (before the end of the line when there is no such word)
LastCodeWord(l, i, j) ==
    /\ IsWord(l, i, j)
    /\ \A n \in 1..i : ~CommentAt(l, n)
    /\ \/ \A n \in (j + 1)..Len(l) : IsSpace(l[n])
       \/ \E n \in (j + 1)..Len(l) :
             /\ CommentAt(l, n)
             /\ \A m \in (j + 1)..(n - 1) : IsSpace(l[m])

\* C7: endsWithSemicolon(line) is true exactly when the last word before the
\* first word beginning with "--" (or before the end of the line) ends with
\* ";"; what follows the first "--" word never matters.
C7_EndsWithSemicolon ==
    ret # <<>> =>
        (ret[1] <=> \E i \in 1..Len(line) : \E j \in i..Len(line) :
                        LastCodeWord(line, i, j) /\ line[j] = ";")

\* "; -- ;" : terminated, with a semicolon inside the comment as well
C7_Witness ==
    /\ ret = <<TRUE>>
    /\ line = <<";", " ", "-", "-", " ", ";">>

\* "a --;" : the only semicolon is inside the comment
C7_WitnessComment ==
    /\ ret = <<FALSE>>
    /\ line = <<"a", " ", "-", "-", ";">>

----------------------------------------------------------------------------
(* splitSQLStatements *)

sqlCmdPrefix == <<"-", "-", " ", "+", "g", "o", "o", "s", "e", " ">>

CmdUp             == <<"U", "p">>
CmdDown           == <<"D", "o", "w", "n">>
CmdStatementBegin == <<"S", "t", "a", "t", "e", "m", "e", "n", "t", "B", "e", "g", "i", "n">>
CmdStatementEnd   == <<"S", "t", "a", "t", "e", "m", "e", "n", "t", "E", "n", "d">>

\* the lines scripts are made of
LineUp       == sqlCmdPrefix \o CmdUp
LineDown     == sqlCmdPrefix \o CmdDown \o <<" ">>
LineBegin    == sqlCmdPrefix \o CmdStatementBegin
LineEnd      == sqlCmdPrefix \o CmdStatementEnd
LineUnknown  == sqlCmdPrefix \o <<"X">>
LineStmtA    == <<"a", ";">>
LineStmtB    == <<"b", ";", " ", "-", "-", "c">>
LineOpen     == <<"c", " ", "-", "-", ";">>
LineBlank    == <<" ">>

ScriptLines == {LineUp, LineDown, LineBegin, LineEnd, LineUnknown,
                LineStmtA, LineStmtB, LineOpen, LineBlank}

\* cmd := strings.TrimSpace(line[len(sqlCmdPrefix):])
CmdOf(l) == TrimSpace(SubSeq(l, Len(sqlCmdPrefix) + 1, Len(l)))

IsCmd(l, cmd) == HasPrefix(l, sqlCmdPrefix) /\ CmdOf(l) = cmd

\* case "Down" with the comparison of case "Up"
CaseDownAsUp(st, direction) ==
    [st EXCEPT !.directionIsActive = (direction = TRUE),
               !.downSections = @ + 1]

\* case "Up" without upSections++
CaseUpNotCounted(st, direction) ==
    [st EXCEPT !.directionIsActive = (direction = TRUE)]

CaseUp(st, direction) ==
    [st EXCEPT !.directionIsActive = (direction = TRUE),
               !.upSections = @ + 1]

CaseDown(st, direction) ==
    [st EXCEPT !.directionIsActive = (direction = FALSE),
               !.downSections = @ + 1]

\* case "StatementBegin" without the test of directionIsActive
CaseStatementBeginAlways(st) ==
    [st EXCEPT !.ignoreSemicolons = TRUE]

CaseStatementBegin(st) ==
    IF st.directionIsActive
    THEN [st EXCEPT !.ignoreSemicolons = TRUE]
    ELSE st

CaseStatementEnd(st) ==
    IF st.directionIsActive
    THEN [st EXCEPT !.statementEnded = (st.ignoreSemicolons = TRUE),
                    !.ignoreSemicolons = FALSE]
    ELSE st

\* if strings.HasPrefix(line, sqlCmdPrefix) { switch cmd { ... } }
HandleCmd(st, l, direction) ==
    IF ~HasPrefix(l, sqlCmdPrefix) THEN st
    ELSE CASE CmdOf(l) = CmdUp             -> CaseUp(st, direction)
           [] CmdOf(l) = CmdDown           -> CaseDown(st, direction)
           [] CmdOf(l) = CmdStatementBegin -> CaseStatementBegin(st)
           [] CmdOf(l) = CmdStatementEnd   -> CaseStatementEnd(st)
           [] OTHER                        -> st

\* the flush condition that forgets the StatementBegin suppression
FlushNowAnySemicolon(st, l) == endsWithSemicolon(l) \/ st.statementEnded

\* (!ignoreSemicolons && endsWithSemicolon(line)) || statementEnded
FlushNow(st, l) ==
    (~st.ignoreSemicolons /\ endsWithSemicolon(l)) \/ st.statementEnded

\* the flush emitting the last line only, the earlier buffer lost
WriteLineDropEarlier(st, l, n) ==
    LET written == Append(st.buf, [n |-> n, text |-> l])
    IN  IF FlushNow(st, l)
        THEN [st EXCEPT !.statementEnded = FALSE,
                        !.stmts = Append(@, <<[n |-> n, text |-> l]>>),
                        !.buf = <<>>]
        ELSE [st EXCEPT !.buf = written]

\* buf.WriteString(line + "\n"), then the flush
WriteLine(st, l, n) ==
    LET written == Append(st.buf, [n |-> n, text |-> l])
    IN  IF FlushNow(st, l)
        THEN [st EXCEPT !.statementEnded = FALSE,
                        !.stmts = Append(@, written),
                        !.buf = <<>>]
        ELSE [st EXCEPT !.buf = written]

\* the loop with a continue after the switch: directive lines never written
ScanLineSkipCmd(st, l, n, direction) ==
    LET st1 == HandleCmd(st, l, direction)
    IN  IF ~st1.directionIsActive \/ HasPrefix(l, sqlCmdPrefix)
        THEN st1 ELSE WriteLine(st1, l, n)

\* one iteration of the scanner loop on line number n
ScanLine(st, l, n, direction) ==
    LET st1 == HandleCmd(st, l, direction)
    IN  IF ~st1.directionIsActive THEN st1 ELSE WriteLine(st1, l, n)

RECURSIVE ScanLines(_, _, _)
\* the state of the loop after the first k lines of s
ScanLines(s, k, direction) ==
    IF k = 0 THEN NoScan
    ELSE ScanLine(ScanLines(s, k - 1, direction), s[k], k, direction)

\* strings.TrimSpace(buf.String()), len > 0
BufferRemaining(st) ==
    \E i \in 1..Len(st.buf) : TrimSpace(st.buf[i].text) # <<>>

\* the end of the call with the missing StatementEnd treated as fatal
SplitEndStrict(st) ==
    [status   |-> IF (st.upSections = 0 /\ st.downSections = 0) \/ st.ignoreSemicolons
                  THEN "fatal" ELSE "returned",
     warnings |-> {},
     stmts    |-> IF st.ignoreSemicolons THEN <<>> ELSE st.stmts]

\* the end of the call without the check for missing annotations
SplitEndNoFatal(st) ==
    [status   |-> "returned",
     warnings |-> (IF st.ignoreSemicolons THEN {"no matching StatementEnd"} ELSE {})
                  \cup (IF BufferRemaining(st) THEN {"unfinished SQL query"} ELSE {}),
     stmts    |-> st.stmts]

\* what follows the loop: the two warnings, then the fatal check
SplitEnd(st) ==
    [status   |-> IF st.upSections = 0 /\ st.downSections = 0
                  THEN "fatal" ELSE "returned",
     warnings |-> (IF st.ignoreSemicolons THEN {"no matching StatementEnd"} ELSE {})
                  \cup (IF BufferRemaining(st) THEN {"unfinished SQL query"} ELSE {}),
     stmts    |-> st.stmts]

\* the call returning what is left in the buffer as a last statement
splitSQLStatementsFlushRest(s, direction) ==
    LET st == ScanLines(s, Len(s), direction)
    IN  [SplitEnd(st) EXCEPT !.stmts = IF BufferRemaining(st)
                                       THEN Append(@, st.buf) ELSE @]

\* the call as a whole, on the lines s
splitSQLStatements(s, direction) == SplitEnd(ScanLines(s, Len(s), direction))

\* the text of a statement: its lines without their line numbers
StmtText(stmt) == [i \in 1..Len(stmt) |-> stmt[i].text]

----------------------------------------------------------------------------
(* SpecSplit *)

Scripts == UNION {[1..k -> ScriptLines] : k \in 0..MaxScriptLen}

InitSplit ==
    /\ script \in Scripts
    /\ sdir \in BOOLEAN
    /\ pos = 0
    /\ sp = NoScan
    /\ sout = Scanning
    /\ SemiIdle /\ RunIdle

\* scanner.Scan() returned true
ScanStep ==
    /\ sout = Scanning
    /\ pos < Len(script)
    /\ pos' = pos + 1
    /\ sp' = ScanLine(sp, script[pos + 1], pos + 1, sdir)
    /\ UNCHANGED <<script, sdir, sout, semiVars, runVars>>

\* scanner.Scan() returned false
ScanDone ==
    /\ sout = Scanning
    /\ pos = Len(script)
    /\ sout' = SplitEnd(sp)
    /\ UNCHANGED <<script, sdir, pos, sp, semiVars, runVars>>

NextSplit == ScanStep \/ ScanDone

SpecSplit == InitSplit /\ [][NextSplit]_vars

----------------------------------------------------------------------------
(* dialects *)

Dialects == {"postgres", "mysql", "sqlite3"}

\* createVersionTableSql: goose_db_version has a checksum column
HasChecksumColumn(d) == d \in {"postgres", "mysql"}

\* the INSERT rewritten as an update of the version's latest row
insertVersionSqlUpsert(d, table, v, applied, checksum) ==
    LET row == IF HasChecksumColumn(d)
               THEN [version_id |-> v, is_applied |-> applied, checksum |-> checksum]
               ELSE [version_id |-> v, is_applied |-> applied]
        old == {i \in 1..Len(table) : table[i].version_id = v}
    IN  IF old = {} THEN Append(table, row)
        ELSE [i \in 1..Len(table) |->
                 IF i = CHOOSE m \in old : \A n \in old : n <= m THEN row ELSE table[i]]

\* insertVersionSql executed with (v, applied, checksum): one new row, with
\* the next id; the sqlite3 table has no checksum column
insertVersionSql(d, table, v, applied, checksum) ==
    Append(table, IF HasChecksumColumn(d)
                  THEN [version_id |-> v, is_applied |-> applied, checksum |-> checksum]
                  ELSE [version_id |-> v, is_applied |-> applied])

\* SELECT version_id, is_applied from goose_db_version ORDER BY id DESC
SelectVersions(table) ==
    [i \in 1..Len(table) |->
        [version_id |-> table[Len(table) + 1 - i].version_id,
         is_applied |-> table[Len(table) + 1 - i].is_applied]]

\* the outcomes of db.Query: no error, an error value of the driver's own
\* error type (sqlite3.Error for sqlite3), any other error
QueryErrors == {"nil", "driver", "other"}

PostgresDbVersionQuery(table, err) ==
    IF err # "nil"
    THEN [rows |-> <<>>, err |-> "ErrTableDoesNotExist"]
    ELSE [rows |-> SelectVersions(table), err |-> "nil"]

\* the mysql query handing the error on unchanged
MySqlDbVersionQueryPassErr(table, err) ==
    IF err # "nil"
    THEN [rows |-> <<>>, err |-> err]
    ELSE [rows |-> SelectVersions(table), err |-> "nil"]

MySqlDbVersionQuery(table, err) ==
    IF err # "nil"
    THEN [rows |-> <<>>, err |-> "ErrTableDoesNotExist"]
    ELSE [rows |-> SelectVersions(table), err |-> "nil"]

\* switch err.(type) { case sqlite3.Error: ... }; return rows, err
Sqlite3DbVersionQuery(table, err) ==
    IF err = "driver"
    THEN [rows |-> <<>>, err |-> "ErrTableDoesNotExist"]
    ELSE [rows |-> IF err = "nil" THEN SelectVersions(table) ELSE <<>>,
          err  |-> err]

dbVersionQuery(d, table, err) ==
    CASE d = "postgres" -> PostgresDbVersionQuery(table, err)
      [] d = "mysql"    -> MySqlDbVersionQuery(table, err)
      [] d = "sqlite3"  -> Sqlite3DbVersionQuery(table, err)

\* SELECT checksum from goose_db_version WHERE version_id = v, no ORDER BY;
\* the loop keeps the last row scanned.  The order of the rows is not
\* specified by the query, so the value returned is that of any matching
\* row; "" (the zero value) when no row matches.
getCheckSum(table, v) ==
    LET rows == {i \in 1..Len(table) : table[i].version_id = v}
    IN  IF rows = {} THEN {<<>>} ELSE {table[i].checksum : i \in rows}

\* the sqlite3 query returning "", nil instead of panicking
Sqlite3DbCheckSumQueryEmpty(table, v) == [panic |-> FALSE, values |-> {<<>>}]

\* panic("Check sum column is not present in goose_db_version table ...")
Sqlite3DbCheckSumQuery(table, v) == [panic |-> TRUE, values |-> {}]

\* values: the checksums the call can return
dbCheckSumQuery(d, table, v) ==
    IF d = "sqlite3"
    THEN Sqlite3DbCheckSumQuery(table, v)
    ELSE [panic |-> FALSE, values |-> getCheckSum(table, v)]

----------------------------------------------------------------------------
(* checksum *)

\* md5.Sum idealised as collision-free: the digest stands for its input
md5Sum(data) == [md5 |-> data]

\* fmt.Sprintf("%x\n", md5): the hex rendering followed by a newline
getMD5AsString(data) == <<md5Sum(data), "\n">>

----------------------------------------------------------------------------
(* Spec: the process, its script files and the database *)

Versions == 1..MaxVersion

\* Up with two statements, Down with one
ScriptA == <<LineUp, LineStmtA, LineStmtB, LineDown, LineStmtA>>
\* Up only, the last line unterminated
ScriptB == <<LineUp, LineStmtA, LineOpen>>
\* no Up or Down directive
ScriptC == <<LineBegin, LineStmtA, LineEnd>>

FileContents == {ScriptA, ScriptB, ScriptC}

Unrecorded == [has |-> FALSE, data |-> <<>>]

Init ==
    /\ dialect \in Dialects
    /\ files \in [Versions -> FileContents]
    /\ history = <<>>
    /\ pc = "idle"
    /\ txn = "none"
    /\ effects = <<>>
    /\ run = NoRun
    /\ outcome = NoOutcome
    /\ recorded = [v \in Versions |-> Unrecorded]
    /\ SemiIdle /\ SplitIdle

Running(v) == [NoOutcome EXCEPT !.op = "runSQLMigration", !.v = v, !.out = "running"]
Fatal(msg) == [outcome EXCEPT !.out = msg]

\* another process rewrites a script file in place
EditScript(v, c) ==
    /\ pc # "off"
    /\ c # files[v]
    /\ files' = [files EXCEPT ![v] = c]
    /\ UNCHANGED <<dialect, history, pc, txn, effects, run, outcome,
                   recorded, semiVars, splitVars>>

\* txn, err := db.Begin()
Begin(v, direction) ==
    /\ pc = "idle"
    /\ Len(history) < MaxHistory
    /\ txn' = "open"
    /\ effects' = <<>>
    /\ run' = [NoRun EXCEPT !.v = v, !.direction = direction]
    /\ outcome' = Running(v)
    /\ pc' = "open"
    /\ UNCHANGED <<dialect, files, history, recorded, semiVars, splitVars>>

\* db.Begin failed: log.Fatal
BeginFail(v, direction) ==
    /\ pc = "idle"
    /\ Len(history) < MaxHistory
    /\ txn' = "none"
    /\ effects' = <<>>
    /\ run' = NoRun
    /\ outcome' = [Running(v) EXCEPT !.out = "db.Begin"]
    /\ pc' = "exited"
    /\ UNCHANGED <<dialect, files, history, recorded, semiVars, splitVars>>

\* f, err := os.Open(scriptFile)
OpenScript ==
    /\ pc = "open"
    /\ pc' = "read"
    /\ UNCHANGED <<dialect, files, history, txn, effects, run, outcome,
                   recorded, semiVars, splitVars>>

\* os.Open failed: log.Fatal
OpenFail ==
    /\ pc = "open"
    /\ pc' = "exited"
    /\ outcome' = Fatal("os.Open")
    /\ run' = NoRun
    /\ UNCHANGED <<dialect, files, history, txn, effects,
                   recorded, semiVars, splitVars>>

\* data := ioutil.ReadFile(scriptFile); md5str := getMD5AsString(data)
ReadScript ==
    /\ pc = "read"
    /\ run' = [run EXCEPT !.data = files[run.v],
                          !.md5str = getMD5AsString(files[run.v])]
    /\ pc' = "split"
    /\ UNCHANGED <<dialect, files, history, txn, effects, outcome,
                   recorded, semiVars, splitVars>>

\* splitSQLStatements(f, direction) returned; f is read here, by the scanner
SplitReturned ==
    /\ pc = "split"
    /\ LET r == splitSQLStatements(files[run.v], run.direction)
       IN  /\ r.status = "returned"
           /\ run' = [run EXCEPT !.stmts = [i \in 1..Len(r.stmts) |-> StmtText(r.stmts[i])],
                                 !.idx = 1,
                                 !.warnings = r.warnings]
    /\ pc' = "exec"
    /\ UNCHANGED <<dialect, files, history, txn, effects, outcome,
                   recorded, semiVars, splitVars>>

\* the fatal end taken also when the requested direction has no section
SplitFatalMissingSection ==
    /\ pc = "split"
    /\ \/ splitSQLStatements(files[run.v], run.direction).status = "fatal"
       \/ LET st == ScanLines(files[run.v], Len(files[run.v]), run.direction)
          IN  (IF run.direction THEN st.upSections ELSE st.downSections) = 0
    /\ pc' = "exited"
    /\ outcome' = Fatal("no Up/Down annotations found")
    /\ run' = NoRun
    /\ UNCHANGED <<dialect, files, history, txn, effects,
                   recorded, semiVars, splitVars>>

\* splitSQLStatements ended in log.Fatalf
SplitFatal ==
    /\ pc = "split"
    /\ splitSQLStatements(files[run.v], run.direction).status = "fatal"
    /\ pc' = "exited"
    /\ outcome' = Fatal("no Up/Down annotations found")
    /\ run' = NoRun
    /\ UNCHANGED <<dialect, files, history, txn, effects,
                   recorded, semiVars, splitVars>>

\* the loop stepping over the statement after the one it executed
ExecOkSkip ==
    /\ pc = "exec"
    /\ run.idx <= Len(run.stmts)
    /\ effects' = Append(effects, run.stmts[run.idx])
    /\ run' = [run EXCEPT !.idx = @ + 2]
    /\ UNCHANGED <<dialect, files, history, pc, txn, outcome,
                   recorded, semiVars, splitVars>>

\* txn.Exec(query) succeeded
ExecOk ==
    /\ pc = "exec"
    /\ run.idx <= Len(run.stmts)
    /\ effects' = Append(effects, run.stmts[run.idx])
    /\ run' = [run EXCEPT !.idx = @ + 1]
    /\ UNCHANGED <<dialect, files, history, pc, txn, outcome,
                   recorded, semiVars, splitVars>>

\* the failure branch without txn.Rollback()
ExecFailNoRollback ==
    /\ pc = "exec"
    /\ run.idx <= Len(run.stmts)
    /\ pc' = "exited"
    /\ outcome' = [Fatal("FAIL") EXCEPT !.k = run.idx]
    /\ run' = NoRun
    /\ UNCHANGED <<dialect, files, history, txn, effects,
                   recorded, semiVars, splitVars>>

\* txn.Exec(query) failed: txn.Rollback(), log.Fatalf
ExecFail ==
    /\ pc = "exec"
    /\ run.idx <= Len(run.stmts)
    /\ txn' = "rolledback"
    /\ effects' = <<>>
    /\ pc' = "exited"
    /\ outcome' = [Fatal("FAIL") EXCEPT !.k = run.idx]
    /\ run' = NoRun
    /\ UNCHANGED <<dialect, files, history, recorded,
                   semiVars, splitVars>>

\* FinalizeMigration: the version row inserted and the transaction committed
FinalizeOk ==
    /\ pc = "exec"
    /\ run.idx > Len(run.stmts)
    /\ history' = insertVersionSql(dialect, history, run.v, run.direction, run.md5str)
    /\ txn' = "committed"
    /\ UNCHANGED effects
    /\ recorded' = IF HasChecksumColumn(dialect)
                   THEN [recorded EXCEPT ![run.v] = [has |-> TRUE, data |-> run.data]]
                   ELSE recorded
    /\ pc' = "idle"
    /\ outcome' = [outcome EXCEPT !.out = "ok", !.warnings = run.warnings]
    /\ run' = NoRun
    /\ UNCHANGED <<dialect, files, semiVars, splitVars>>

\* FinalizeMigration: the insert or the commit failed; the transaction is
\* not left open, the error comes back and runSQLMigration ends in log.Fatalf
FinalizeFail ==
    /\ pc = "exec"
    /\ run.idx > Len(run.stmts)
    /\ effects' = <<>>
    /\ txn' = "rolledback"
    /\ pc' = "exited"
    /\ outcome' = Fatal("error finalizing migration")
    /\ run' = NoRun
    /\ UNCHANGED <<dialect, files, history, recorded,
                   semiVars, splitVars>>

\* the process has exited, its locals are gone; the next invocation starts, on a new connection
\* (the server gives up a transaction whose connection is gone)
Restart ==
    /\ pc = "exited"
    /\ pc' = "idle"
    /\ txn' = "none"
    /\ effects' = <<>>
    /\ run' = NoRun
    /\ outcome' = NoOutcome
    /\ UNCHANGED <<dialect, files, history, recorded, semiVars, splitVars>>

Validating(v) == [NoOutcome EXCEPT !.op = "validateChecksum", !.v = v]

ValidateFrame ==
    /\ txn' = "none"
    /\ effects' = <<>>
    /\ run' = NoRun
    /\ UNCHANGED <<dialect, files, history, recorded, semiVars, splitVars>>

\* validateChecksum: dbCheckSumQuery panicked
ValidatePanic(v) ==
    /\ pc = "idle"
    /\ dbCheckSumQuery(dialect, history, v).panic
    /\ outcome' = [Validating(v) EXCEPT !.out = "panic"]
    /\ pc' = "exited"
    /\ ValidateFrame

\* validateChecksum: db.Query failed in getCheckSum, log.Fatal(err)
ValidateQueryFail(v) ==
    /\ pc = "idle"
    /\ ~dbCheckSumQuery(dialect, history, v).panic
    /\ outcome' = [Validating(v) EXCEPT !.out = "query", !.qerr = "other"]
    /\ pc' = "exited"
    /\ ValidateFrame

\* validateChecksum: md5str != checksum, log.Fatal("checksum mismatch ...")
ValidateMismatch(v) ==
    /\ pc = "idle"
    /\ LET q == dbCheckSumQuery(dialect, history, v)
       IN  /\ ~q.panic
           /\ \E checksum \in q.values : getMD5AsString(files[v]) # checksum
    /\ outcome' = [Validating(v) EXCEPT !.out = "checksum mismatch"]
    /\ pc' = "exited"
    /\ ValidateFrame

\* validateChecksum returned
ValidateOk(v) ==
    /\ pc = "idle"
    /\ LET q == dbCheckSumQuery(dialect, history, v)
       IN  /\ ~q.panic
           /\ \E checksum \in q.values : getMD5AsString(files[v]) = checksum
    /\ outcome' = [Validating(v) EXCEPT !.out = "ok"]
    /\ pc' = "idle"
    /\ ValidateFrame

\* Dialect.dbVersionQuery(db), the SELECT ending as err says
DbVersionQuery(err) ==
    /\ pc = "idle"
    /\ LET q == dbVersionQuery(dialect, history, err)
       IN  outcome' = [NoOutcome EXCEPT !.op = "dbVersionQuery", !.out = q.err,
                                        !.qerr = err, !.rows = q.rows]
    /\ txn' = "none"
    /\ effects' = <<>>
    /\ run' = NoRun
    /\ UNCHANGED <<dialect, files, history, pc, recorded, semiVars, splitVars>>

Next ==
    \/ \E v \in Versions : \E c \in FileContents : EditScript(v, c)
    \/ \E v \in Versions : \E d \in BOOLEAN : Begin(v, d)
    \/ \E v \in Versions : \E d \in BOOLEAN : BeginFail(v, d)
    \/ OpenScript
    \/ OpenFail
    \/ ReadScript
    \/ SplitReturned
    \/ SplitFatal
    \/ ExecOk
    \/ ExecFail
    \/ FinalizeOk
    \/ FinalizeFail
    \/ Restart
    \/ \E v \in Versions : ValidatePanic(v)
    \/ \E v \in Versions : ValidateQueryFail(v)
    \/ \E v \in Versions : ValidateMismatch(v)
    \/ \E v \in Versions : ValidateOk(v)
    \/ \E err \in QueryErrors : DbVersionQuery(err)

Spec == Init /\ [][Next]_vars

----------------------------------------------------------------------------
(* properties of the splitter *)

\* the section line n of s lies in: that of the last Up or Down directive
\* at or before n
RECURSIVE SectionOf(_, _)
SectionOf(s, n) ==
    IF n = 0 THEN "none"
    ELSE IF IsCmd(s[n], CmdUp) THEN "up"
    ELSE IF IsCmd(s[n], CmdDown) THEN "down"
    ELSE SectionOf(s, n - 1)

Requested(direction) == IF direction THEN "up" ELSE "down"
Other(direction)     == IF direction THEN "down" ELSE "up"

CountCmd(s, cmd) == Cardinality({n \in 1..Len(s) : IsCmd(s[n], cmd)})

\* the numbers of the script lines found in a sequence of statements
LinesOf(stmt) == {stmt[j].n : j \in 1..Len(stmt)}

LinesIn(stmts) == UNION {LinesOf(stmts[i]) : i \in 1..Len(stmts)}

IsPrefixOf(a, b) == Len(a) <= Len(b) /\ SubSeq(b, 1, Len(a)) = a

\* C3: with exactly one Up and one Down directive, a split in one direction
\* returns no line of the other direction's section.
C3_NoWrongSection ==
    (/\ sout.status = "returned"
     /\ CountCmd(script, CmdUp) = 1
     /\ CountCmd(script, CmdDown) = 1)
    => \A n \in LinesIn(sout.stmts) : SectionOf(script, n) # Other(sdir)

\* Up, a; Down, a; split upwards: one statement, nothing from the Down section
C3_Witness ==
    /\ script = <<LineUp, LineStmtA, LineDown, LineStmtA>>
    /\ sdir = TRUE
    /\ sout.status = "returned"
    /\ LinesIn(sout.stmts) = {1, 2}

\* C6 as stated: no returned statement contains a line that starts with the
\* directive prefix.
C6_NoDirectiveInStatements ==
    sout.status = "returned"
    => \A i \in 1..Len(sout.stmts) : \A j \in 1..Len(sout.stmts[i]) :
          ~HasPrefix(sout.stmts[i][j].text, sqlCmdPrefix)

\* C6 amended: a directive line is written to the buffer exactly when the
\* section it lies in (after the directive took effect) is the requested
\* one; so statements may hold the requested direction's own directive,
\* StatementBegin, StatementEnd and unrecognized directives, but never the
\* directive that opens the other direction's section.
C6_DirectiveWrittenIffActive ==
    \A n \in 1..pos :
        HasPrefix(script[n], sqlCmdPrefix)
        => ((n \in LinesIn(sp.stmts) \cup LinesOf(sp.buf))
              <=> SectionOf(script, n) = Requested(sdir))

\* Up, a; split upwards returns the statement "-- +goose Up\na;\n"
C6_Witness ==
    /\ script = <<LineUp, LineStmtA>>
    /\ sdir = TRUE
    /\ sout.status = "returned"
    /\ Len(sout.stmts) = 1
    /\ StmtText(sout.stmts[1]) = <<LineUp, LineStmtA>>

\* line j is a StatementBegin honoured in the requested direction's section
\* and no StatementEnd is honoured after it
UnmatchedBegin(s, j, direction) ==
    /\ IsCmd(s[j], CmdStatementBegin)
    /\ SectionOf(s, j) = Requested(direction)
    /\ \A k \in (j + 1)..Len(s) :
          ~(IsCmd(s[k], CmdStatementEnd) /\ SectionOf(s, k) = Requested(direction))

\* C8: with some Up or Down directive and a StatementBegin that no
\* StatementEnd matches, the call does not fail: it returns, in order, every
\* statement completed before that StatementBegin, and warns.
C8_MissingStatementEnd ==
    sout.status # "scanning"
    => \A j \in 1..Len(script) :
          (/\ UnmatchedBegin(script, j, sdir)
           /\ CountCmd(script, CmdUp) + CountCmd(script, CmdDown) > 0)
          => /\ sout.status = "returned"
             /\ "no matching StatementEnd" \in sout.warnings
             /\ IsPrefixOf(ScanLines(script, j - 1, sdir).stmts, sout.stmts)

\* Up, a; StatementBegin, a; : the first statement is returned, with a warning
C8_Witness ==
    /\ script = <<LineUp, LineStmtA, LineBegin, LineStmtA>>
    /\ sdir = TRUE
    /\ sout.status = "returned"
    /\ sout.warnings = {"no matching StatementEnd", "unfinished SQL query"}
    /\ Len(sout.stmts) = 1

----------------------------------------------------------------------------
(* properties of the runner and the dialects *)

\* C1: when the k-th statement fails, the transaction is rolled back with
\* the effects of statements 1..k-1, no version row is inserted, nothing is
\* committed, and no further statement is executed afterwards.
C1_StatementFailureRollsBack ==
    [][ /\ (pc = "exec" /\ pc' = "exited" /\ outcome'.out = "FAIL")
           => /\ outcome'.k = Len(effects) + 1
              /\ txn' = "rolledback"
              /\ effects' = <<>>
              /\ history' = history
        /\ (pc = "exited" /\ outcome.out = "FAIL")
           => /\ txn' # "committed"
              /\ effects' = <<>>
              /\ history' = history ]_vars

\* the second statement failed after the first had been executed
C1_Witness ==
    /\ pc = "exited"
    /\ outcome.out = "FAIL"
    /\ outcome.k = 2
    /\ txn = "rolledback"
    /\ effects = <<>>

\* C2: the version history is append-only: a successful run adds exactly one
\* row, at the end, carrying the run's version and applied = its direction;
\* no other step changes the history.
C2_HistoryAppendOnly ==
    [][ IF pc = "exec" /\ pc' = "idle"
        THEN /\ Len(history') = Len(history) + 1
             /\ SubSeq(history', 1, Len(history)) = history
             /\ history'[Len(history')].version_id = run.v
             /\ history'[Len(history')].is_applied = run.direction
        ELSE history' = history ]_vars

\* a version applied, then reverted: two rows, the latest with applied=false
C2_Witness ==
    /\ pc = "idle"
    /\ Len(history) = 2
    /\ history[1].version_id = history[2].version_id
    /\ history[1].is_applied
    /\ ~history[2].is_applied

NoAnnotations(s) == CountCmd(s, CmdUp) + CountCmd(s, CmdDown) = 0

\* C4: on a script without Up and Down directives the splitter ends in the
\* "no Up/Down annotations found" error, and the run executes no statement,
\* inserts no version row and commits nothing.
C4_NoAnnotationsFatal ==
    [][ /\ (pc = "split" /\ pc' # "split" /\ NoAnnotations(files[run.v]))
           => /\ pc' = "exited"
              /\ outcome'.out = "no Up/Down annotations found"
              /\ effects' = <<>>
              /\ history' = history
              /\ txn' # "committed"
        /\ (pc = "exited" /\ outcome.out = "no Up/Down annotations found")
           => /\ effects' = <<>>
              /\ history' = history
              /\ txn' # "committed" ]_vars

C4_Witness ==
    /\ pc = "exited"
    /\ outcome.op = "runSQLMigration"
    /\ outcome.out = "no Up/Down annotations found"
    /\ NoAnnotations(files[outcome.v])
    /\ effects = <<>>
    /\ history = <<>>

\* C5 as stated: for a checksum-storing dialect and a recorded version,
\* validateChecksum returns silently exactly when the script on disk is the
\* content that was last recorded, and ends in the mismatch error otherwise.
C5_ValidateAgainstRecorded ==
    [][ (/\ pc = "idle"
         /\ files' = files
         /\ outcome'.op = "validateChecksum"
         /\ outcome'.out \in {"ok", "checksum mismatch"}
         /\ HasChecksumColumn(dialect)
         /\ recorded[outcome'.v].has)
        => (outcome'.out = "ok" <=> files[outcome'.v] = recorded[outcome'.v].data) ]_vars

\* C9 as stated: whatever the dialect, a failed SELECT is reported as
\* ErrTableDoesNotExist.
C9_AnyFailureIsTableMissing ==
    (outcome.op = "dbVersionQuery" /\ outcome.qerr # "nil")
    => outcome.out = "ErrTableDoesNotExist"

\* C9 amended: postgres and mysql report every failure of the SELECT as
\* ErrTableDoesNotExist; sqlite3 does so only for an error of type
\* sqlite3.Error and returns any other error unchanged.
C9_FailureByDialect ==
    (outcome.op = "dbVersionQuery" /\ outcome.qerr # "nil")
    => /\ outcome.rows = <<>>
       /\ outcome.out = IF dialect \in {"postgres", "mysql"} \/ outcome.qerr = "driver"
                        THEN "ErrTableDoesNotExist"
                        ELSE outcome.qerr

\* mysql, the SELECT failing with an error that is not the driver's own
C9_Witness ==
    /\ dialect = "mysql"
    /\ outcome.op = "dbVersionQuery"
    /\ outcome.qerr = "other"
    /\ outcome.out = "ErrTableDoesNotExist"

\* C10: on sqlite3 dbCheckSumQuery returns no checksum at all, and
\* validateChecksum ends in the panic of the missing checksum column, never
\* in a checksum mismatch and never silently, whatever the script is.
C10_Sqlite3Unsupported ==
    dialect = "sqlite3"
    => /\ \A v \in Versions : LET q == dbCheckSumQuery(dialect, history, v)
                               IN  q.panic /\ q.values = {}
       /\ outcome.op = "validateChecksum"
            => (outcome.out = "panic" /\ pc = "exited")

\* validateChecksum of a recorded version on sqlite3
C10_Witness ==
    /\ dialect = "sqlite3"
    /\ outcome.op = "validateChecksum"
    /\ outcome.out = "panic"
    /\ \E i \in 1..Len(history) : history[i].version_id = outcome.v

\* C11 as stated: the bytes the splitter scans are the bytes that were read
\* for the checksum, whenever the file is rewritten; a recorded checksum is
\* that of the content whose statements were executed.
C11_SameBytes ==
    [][ /\ (pc = "split" /\ pc' # "split") => files[run.v] = run.data
        /\ (pc = "exec" /\ pc' = "idle")
           => effects = LET r == splitSQLStatements(run.data, run.direction)
                        IN  [i \in 1..Len(r.stmts) |-> StmtText(r.stmts[i])] ]_vars

\* C12 as stated: however a run that has begun its transaction stops, the
\* transaction is committed or rolled back, never left open.
C12_NeverLeftOpen ==
    (/\ outcome.op = "runSQLMigration"
     /\ outcome.out \notin {"running", "db.Begin"}
     /\ pc \in {"idle", "exited"})
    => txn \in {"committed", "rolledback"}

\* C13: the statements are executed one at a time, each once, in the order
\* returned, inside the one open transaction of the run; the version row is
\* inserted only after all of them succeeded, and the commit comes with it.
C13_ExecutionOrder ==
    [][ /\ pc' = "exec"
           => /\ txn' = "open"
              /\ run'.idx \in 1..(Len(run'.stmts) + 1)
              /\ effects' = SubSeq(run'.stmts, 1, run'.idx - 1)
        /\ (pc = "exec" /\ effects' # effects)
           => /\ pc' = "exec" => /\ run'.stmts = run.stmts
                                 /\ run'.idx = run.idx + 1
              /\ pc' # "exec" => effects' = <<>>
        /\ (history' # history \/ (txn' = "committed" /\ txn # "committed"))
           => /\ pc = "exec"
              /\ txn = "open"
              /\ effects = run.stmts
              /\ Len(history') = Len(history) + 1
              /\ txn' = "committed" ]_vars

\* both Up statements of a script executed, in order, then recorded
C13_Witness ==
    /\ pc = "idle"
    /\ outcome.out = "ok"
    /\ txn = "committed"
    /\ effects = <<<<LineUp, LineStmtA>>, <<LineStmtB>>>>
    /\ Len(history) = 1

\* the rows of version v, by position in the table (insertion order)
RowsOf(table, v) == {i \in 1..Len(table) : table[i].version_id = v}

\* the row of version v inserted last
LatestRow(table, v) ==
    table[CHOOSE i \in RowsOf(table, v) : \A j \in RowsOf(table, v) : j <= i]

\* C17 as stated: with several rows of differing checksums for a version,
\* validateChecksum passes exactly when the script's checksum is that of the
\* row inserted last.
C17_ComparesLatestRow ==
    [][ (/\ pc = "idle"
         /\ outcome'.op = "validateChecksum"
         /\ outcome'.out \in {"ok", "checksum mismatch"}
         /\ \E i, j \in RowsOf(history, outcome'.v) :
                history[i].checksum # history[j].checksum)
        => (outcome'.out = "ok"
            <=> getMD5AsString(files[outcome'.v])
                = LatestRow(history, outcome'.v).checksum) ]_vars

\* C19: a scan that ends with content left in the buffer does not fail; the
\* statements handed to the run are those completed earlier, the leftover
\* lines are in none of them, and the run executes exactly the returned
\* statements before it records the version.
C19_UnfinishedTail ==
    [][ /\ (pc = "split" /\ pc' # "split")
           => LET st == ScanLines(files[run.v], Len(files[run.v]), run.direction)
              IN  BufferRemaining(st)
                  => /\ pc' = "exec"
                     /\ run'.stmts = [i \in 1..Len(st.stmts) |-> StmtText(st.stmts[i])]
                     /\ LinesOf(st.buf) \cap LinesIn(st.stmts) = {}
                     /\ "unfinished SQL query" \in run'.warnings
        /\ (pc = "exec" /\ "unfinished SQL query" \in run.warnings)
           => /\ IsPrefixOf(effects', run.stmts)
              /\ pc' = "idle"
                 => /\ effects' = run.stmts
                    /\ history' = Append(history, history'[Len(history')])
                    /\ history'[Len(history')].version_id = run.v
                    /\ txn' = "committed"
                    /\ outcome'.out = "ok" ]_vars

\* ScriptB applied: its terminated statement executed, the unterminated last
\* line not, the row recorded
C19_Witness ==
    /\ pc = "idle"
    /\ outcome.op = "runSQLMigration"
    /\ outcome.out = "ok"
    /\ "unfinished SQL query" \in outcome.warnings
    /\ files[outcome.v] = ScriptB
    /\ effects = <<<<LineUp, LineStmtA>>>>
    /\ txn = "committed"
    /\ Len(history) = 1

\* the script has a section for the other direction only
OnlyOtherSection(s, direction) ==
    /\ CountCmd(s, IF direction THEN CmdUp ELSE CmdDown) = 0
    /\ CountCmd(s, IF direction THEN CmdDown ELSE CmdUp) > 0

\* C20: run in the direction the script has no section for, the splitter
\* returns no statement and no error; nothing is executed, and the row with
\* the applied flag of the requested direction is inserted and committed.
C20_MissingDirection ==
    [][ /\ (pc = "split" /\ pc' # "split"
            /\ OnlyOtherSection(files[run.v], run.direction))
           => /\ pc' = "exec"
              /\ run'.stmts = <<>>
              /\ outcome'.out = "running"
        /\ (pc = "exec" /\ run.stmts = <<>>)
           => /\ effects = <<>> /\ effects' = <<>>
              /\ outcome'.out # "FAIL"
              /\ pc' = "idle"
                 => /\ history' = Append(history, history'[Len(history')])
                    /\ history'[Len(history')].version_id = run.v
                    /\ history'[Len(history')].is_applied = run.direction
                    /\ txn' = "committed"
                    /\ outcome'.out = "ok" ]_vars

\* ScriptB, which has no Down section, run down: recorded as not applied
C20_Witness ==
    /\ pc = "idle"
    /\ outcome.op = "runSQLMigration"
    /\ outcome.out = "ok"
    /\ files[outcome.v] = ScriptB
    /\ effects = <<>>
    /\ txn = "committed"
    /\ history # <<>>
    /\ history[Len(history)].version_id = outcome.v
    /\ history[Len(history)].is_applied = FALSE

----------------------------------------------------------------------------
(* further properties of the splitter *)

RECURSIVE Flatten(_)
\* the statements one after the other, as one sequence of lines
Flatten(stmts) ==
    IF stmts = <<>> THEN <<>>
    ELSE Flatten(SubSeq(stmts, 1, Len(stmts) - 1)) \o stmts[Len(stmts)]

\* the first k lines of s that lie in a section of the requested direction,
\* with their line numbers, in source order
Accepted(s, k, direction) ==
    SelectSeq([n \in 1..k |-> [n |-> n, text |-> s[n]]],
              LAMBDA e : SectionOf(s, e.n) = Requested(direction))

\* C14: at every point of the scan the statements emitted so far followed by
\* the buffer are the accepted lines so far, each once and in source order.
C14_OrderAndContent ==
    Flatten(sp.stmts) \o sp.buf = Accepted(script, pos, sdir)

\* a skipped Down section, an emitted statement and a buffered line
C14_Witness ==
    /\ script = <<LineDown, LineUp, LineStmtA, LineOpen>>
    /\ sdir = TRUE
    /\ pos = 4
    /\ Len(sp.stmts) = 1
    /\ Len(sp.buf) = 1

RECURSIVE Suppressed(_, _, _)
\* after line k of s: the last StatementBegin or StatementEnd in a section of
\* the requested direction is a StatementBegin
Suppressed(s, k, direction) ==
    IF k = 0 THEN FALSE
    ELSE IF SectionOf(s, k) = Requested(direction) /\ IsCmd(s[k], CmdStatementBegin)
         THEN TRUE
    ELSE IF SectionOf(s, k) = Requested(direction) /\ IsCmd(s[k], CmdStatementEnd)
         THEN FALSE
    ELSE Suppressed(s, k - 1, direction)

\* C15: from a StatementBegin up to the next StatementEnd of the requested
\* direction no statement is emitted; that StatementEnd emits one statement
\* with everything buffered and restores semicolon termination; a
\* StatementEnd outside suppression emits nothing.
C15_StatementBeginEnd ==
    [][ pos' = pos + 1 =>
        LET n     == pos + 1
            l     == script[n]
            isEnd == /\ SectionOf(script, n) = Requested(sdir)
                     /\ IsCmd(l, CmdStatementEnd)
        IN  /\ Suppressed(script, n, sdir) => sp'.stmts = sp.stmts
            /\ (isEnd /\ Suppressed(script, pos, sdir))
               => /\ sp'.stmts = Append(sp.stmts, Append(sp.buf, [n |-> n, text |-> l]))
                  /\ sp'.buf = <<>>
                  /\ ~sp'.ignoreSemicolons
            /\ (isEnd /\ ~Suppressed(script, pos, sdir))
               => sp'.stmts = sp.stmts ]_vars

\* a bracketed statement holding a line that ends with a semicolon
C15_Witness ==
    /\ script = <<LineUp, LineBegin, LineStmtA, LineEnd>>
    /\ sdir = TRUE
    /\ pos = 4
    /\ sp.buf = <<>>
    /\ Len(sp.stmts) = 1
    /\ LinesOf(sp.stmts[1]) = 1..4

\* the returned statements one after the other, as the lines of a script
TextOf(stmts) == StmtText(Flatten(stmts))

\* splitting again what a split returned gives the same statements
SameAgain(out, direction) ==
    LET again == splitSQLStatements(TextOf(out.stmts), direction)
    IN  /\ again.status = "returned"
        /\ [i \in 1..Len(again.stmts) |-> StmtText(again.stmts[i])]
           = [i \in 1..Len(out.stmts) |-> StmtText(out.stmts[i])]

\* C16 as stated: for every script and direction, splitting the returned
\* statements again returns the same statements.
C16_Idempotent ==
    sout.status = "returned" => SameAgain(sout, sdir)

\* C16 amended: splitting is idempotent whenever the first split returns at
\* least one statement.
C16_IdempotentNonEmpty ==
    (sout.status = "returned" /\ sout.stmts # <<>>) => SameAgain(sout, sdir)

\* a split that left out a section and an unfinished line
C16_Witness ==
    /\ script = <<LineDown, LineUp, LineStmtA, LineOpen>>
    /\ sdir = TRUE
    /\ sout.status = "returned"
    /\ TextOf(sout.stmts) = <<LineUp, LineStmtA>>

\* C18: while the active section is not the requested one, a line that is
\* neither an Up nor a Down directive leaves the whole splitter state as is.
C18_OtherSectionFrame ==
    [][ (/\ pos' = pos + 1
         /\ SectionOf(script, pos) # Requested(sdir)
         /\ ~IsCmd(script[pos + 1], CmdUp)
         /\ ~IsCmd(script[pos + 1], CmdDown))
        => sp' = sp ]_vars

\* a StatementBegin of the Down section, then an Up statement that ends at
\* its semicolon
C18_Witness ==
    /\ script = <<LineDown, LineBegin, LineUp, LineStmtA>>
    /\ sdir = TRUE
    /\ pos = 4
    /\ ~sp.ignoreSemicolons
    /\ Len(sp.stmts) = 1
    /\ sp.buf = <<>>

====
